---------------------------- MODULE Spec2Model ----------------------------
(***************************************************************************)
(* Model of the quick-opts command line parser: the single-header          *)
(* implementation src/opt.h and the earlier snapshot src/opt.c.            *)
(*                                                                         *)
(* Encoding.  A character is its ASCII code, a C string is the sequence    *)
(* of the codes before its terminating nul, and a NULL string pointer is   *)
(* the one-element sequence <<-1>>, which no C string equals.  The         *)
(* argument vector is the sequence vec; the cursor (info->argc,            *)
(* info->argv) is the pair (argc, argv) where argv counts the tokens       *)
(* already passed, so info->argv[0] is vec[argv + 1].  Pointers into the   *)
(* option table are 1-based positions in opts; the idx handed to a         *)
(* callback is the C value (position - 1).                                 *)
(***************************************************************************)
EXTENDS Integers, Sequences, FiniteSets, TLC

VARIABLES
    impl,       \* "h": src/opt.h, "c": src/opt.c
    tbllen,     \* OPT_TBL_LEN of the build (opt.h), 0 when it is not defined
    fstact,     \* info->fstact
    endact,     \* info->endact
    vec,        \* the argument vector handed to opt_parse
    opts,       \* the option table handed to opt_parse
    argc,       \* info->argc
    argv,       \* info->argv, as an offset into vec
    tbl,        \* struct opttbl: the sorted lookup arrays
    pc,         \* position of the opt_parse call
    opt,        \* opt_short: token and character under the opt pointer
    noargs,     \* opt_short: the cluster has more than one character
    res,        \* opt_read: res
    ret,        \* return value of opt_parse
    calls,      \* history: every callback invocation, in order
    classified, \* history: positions of vec given to arg_classify
    key,        \* opt_find driver: the key that was looked up
    found,      \* opt_find driver: what opt_find returned
    argbuf,     \* arg_get driver: the struct arg it filled
    outer       \* the suspended opt_parse calls below the running one

vars == <<impl, tbllen, fstact, endact, vec, opts, argc, argv, tbl, pc, opt,
          noargs, res, ret, calls, classified, key, found, argbuf, outer>>

(***************************************************************************)
(* Bounds of the model.                                                    *)
(***************************************************************************)
MaxArgc == 3      \* longest argument vector
MaxRet == 2       \* callbacks return a value in 0..MaxRet
MaxTblLen == 1    \* largest OPT_TBL_LEN of a fixed-buffer build
MaxOpts == 3      \* longest option table of the lookup specification
MaxStrLen == 4    \* longest token of the classifier specification
MaxNestArgc == 2  \* longest argument vector of the nesting specification
MaxInnerArgc == 1 \* longest argument vector of a nested call
MaxDepth == 1     \* deepest nesting of opt_parse calls inside callbacks

(***************************************************************************)
(* Constants of the program.                                               *)
(***************************************************************************)
dash == 45
NULL == <<-1>>
OPT_FIRST_SKIP == "OPT_FIRST_SKIP"
OPT_FIRST_PARSE == "OPT_FIRST_PARSE"
OPT_END_ALLOW == "OPT_END_ALLOW"
OPT_END_DISALLOW == "OPT_END_DISALLOW"
ARG_TOKEN == "ARG_TOKEN"
ARG_END == "ARG_END"
ARG_SHORT == "ARG_SHORT"
ARG_LONG == "ARG_LONG"
\* unsigned int has at least 16 value bits; the model takes that least
\* width (TLC's integers cannot hold 2^32).
UINT_MAX == 65535

(***************************************************************************)
(* libc as the program uses it.                                            *)
(***************************************************************************)
isdigit(c) == c \in 48..57
isgraph(c) == c \in 33..126

\* s[i] of a C string: the nul terminator past the last character.
CharAt(s, i) == IF i <= Len(s) THEN s[i] ELSE 0

RECURSIVE strcmp(_, _)
strcmp(s, t) ==
    IF CharAt(s, 1) # CharAt(t, 1)
    THEN (IF CharAt(s, 1) < CharAt(t, 1) THEN -1 ELSE 1)
    ELSE IF s = <<>> THEN 0
    ELSE strcmp(Tail(s), Tail(t))

optspec_shrtcmp(c1, c2) == (IF c1 > c2 THEN 1 ELSE 0) - (IF c1 < c2 THEN 1 ELSE 0)

optspec_lngcmp(s1, s2) == strcmp(s1, s2)

\* The comparison opt_find, qsort and bsearch use: len # 0 for long names.
KeyOf(spec, len) == IF len # 0 THEN spec.lng ELSE spec.shrt
Cmp(k1, k2, len) == IF len # 0 THEN optspec_lngcmp(k1, k2) ELSE optspec_shrtcmp(k1, k2)

\* Mutant of qsort: the buffer is left in table order.
qsort_Unsorted(tb, ptrs, len) == ptrs

\* qsort: insertion of each element at its place in the sorted prefix.
RECURSIVE InsertSorted(_, _, _, _)
InsertSorted(tb, sorted, p, len) ==
    IF sorted = <<>> THEN <<p>>
    ELSE IF Cmp(KeyOf(tb[p], len), KeyOf(tb[Head(sorted)], len), len) < 0
         THEN <<p>> \o sorted
         ELSE <<Head(sorted)>> \o InsertSorted(tb, Tail(sorted), p, len)

RECURSIVE qsort(_, _, _)
qsort(tb, ptrs, len) ==
    IF ptrs = <<>> THEN <<>>
    ELSE InsertSorted(tb, qsort(tb, SubSeq(ptrs, 1, Len(ptrs) - 1), len),
                      ptrs[Len(ptrs)], len)

\* Mutant of bsearch: the upper half-open bound is taken as inclusive, so
\* going left drops the element below the probe.
RECURSIVE bsearch_DropLeft(_, _, _, _, _, _)
bsearch_DropLeft(tb, k, base, l, u, len) ==
    IF l >= u THEN 0
    ELSE LET m == (l + u) \div 2
             c == Cmp(k, KeyOf(tb[base[m + 1]], len), len)
         IN  IF c < 0 THEN bsearch_DropLeft(tb, k, base, l, m - 1, len)
             ELSE IF c > 0 THEN bsearch_DropLeft(tb, k, base, m + 1, u, len)
             ELSE base[m + 1]

\* bsearch over base[l+1 .. u]; 0 stands for the NULL result.
RECURSIVE bsearch(_, _, _, _, _, _)
bsearch(tb, k, base, l, u, len) ==
    IF l >= u THEN 0
    ELSE LET m == (l + u) \div 2
             c == Cmp(k, KeyOf(tb[base[m + 1]], len), len)
         IN  IF c < 0 THEN bsearch(tb, k, base, l, m, len)
             ELSE IF c > 0 THEN bsearch(tb, k, base, m + 1, u, len)
             ELSE base[m + 1]

(***************************************************************************)
(* Classifier and cursor.                                                  *)
(***************************************************************************)
\* Mutant of arg_classify: the test of arg[1] before ARG_SHORT is dropped.
arg_classify_DashShort(arg) ==
    IF CharAt(arg, 1) = dash
    THEN IF CharAt(arg, 2) = dash
         THEN (IF CharAt(arg, 3) # 0 THEN ARG_LONG ELSE ARG_END)
         ELSE ARG_SHORT
    ELSE ARG_TOKEN

arg_classify(arg) ==
    IF CharAt(arg, 1) = dash
    THEN IF CharAt(arg, 2) = dash
         THEN (IF CharAt(arg, 3) # 0 THEN ARG_LONG ELSE ARG_END)
         ELSE IF CharAt(arg, 2) # 0 THEN ARG_SHORT
         ELSE ARG_TOKEN
    ELSE ARG_TOKEN

\* The struct arg that arg_get fills from info->argv[0] == v[pos + 1].
ArgAt(v, pos) == [str |-> v[pos + 1], type |-> arg_classify(v[pos + 1])]

\* opt.h: which taken tokens an option accepts as arguments.
opt_valid_argument(arg) ==
    IF arg.type = ARG_TOKEN THEN TRUE
    ELSE IF arg.type = ARG_SHORT THEN isdigit(CharAt(arg.str, 2))
    ELSE FALSE

\* opt.c: the test inlined in opt_call_back.
opt_c_valid_argument(arg) == arg.type = ARG_TOKEN

Acceptable(im, arg) ==
    IF im = "h" THEN opt_valid_argument(arg) ELSE opt_c_valid_argument(arg)

\* Mutant of ToUnsigned: a negative limit counts as no argument.
ToUnsigned_Clamp(n) == IF n < 0 THEN 0 ELSE n

\* (unsigned)job->args
ToUnsigned(n) == n % (UINT_MAX + 1)

\* Mutant of CollectLoop: the loop tests i <= lim.
RECURSIVE CollectLoop_OneMore(_, _, _, _, _, _)
CollectLoop_OneMore(im, v, n, pos, i, lim) ==
    IF i <= lim /\ n # 0 /\ Acceptable(im, ArgAt(v, pos))
    THEN CollectLoop_OneMore(im, v, n - 1, pos + 1, i + 1, lim)
    ELSE i

\* The for loop of opt_call_back: the value of i when it ends, with the
\* cursor at (n, pos) and i arguments accepted so far.
RECURSIVE CollectLoop(_, _, _, _, _, _)
CollectLoop(im, v, n, pos, i, lim) ==
    IF i < lim /\ n # 0 /\ Acceptable(im, ArgAt(v, pos))
    THEN CollectLoop(im, v, n - 1, pos + 1, i + 1, lim)
    ELSE i

\* Mutant of opt_call_back: the collected tokens are all put back.
opt_call_back_NoAdvance(im, v, n, pos, job) ==
    LET lim == ToUnsigned(job.args)
        i == CollectLoop(im, v, n, pos, 0, lim)
        taken == IF i < lim /\ n - i # 0 THEN i + 1 ELSE i
    IN  [count |-> i, args |-> pos, argc |-> n, argv |-> pos,
         seen |-> {pos + j : j \in 1..taken}]

\* Mutant of opt_call_back: the rejected token is not put back.
opt_call_back_NoUnget(im, v, n, pos, job) ==
    LET lim == ToUnsigned(job.args)
        i == CollectLoop(im, v, n, pos, 0, lim)
        taken == IF i < lim /\ n - i # 0 THEN i + 1 ELSE i
    IN  [count |-> i, args |-> pos, argc |-> n - taken, argv |-> pos + taken,
         seen |-> {pos + j : j \in 1..taken}]

\* opt_call_back up to the callback: the count and slice start it passes,
\* the cursor it leaves, and the positions arg_get classified on the way
\* (the accepted ones, and the rejected one that arg_unget puts back).
opt_call_back(im, v, n, pos, job) ==
    LET lim == ToUnsigned(job.args)
        i == CollectLoop(im, v, n, pos, 0, lim)
        taken == IF i < lim /\ n - i # 0 THEN i + 1 ELSE i
    IN  [count |-> i, args |-> pos, argc |-> n - i, argv |-> pos + i,
         seen |-> {pos + j : j \in 1..taken}]

(***************************************************************************)
(* Option index.                                                           *)
(***************************************************************************)
opt_min(x, y) == IF x < y THEN x ELSE y

\* The entries opt_parse copies into the short and the long buffer.
HasShrt(im, spec) == IF im = "h" THEN isgraph(spec.shrt) ELSE spec.shrt # 0
HasLng(im, spec) ==
    IF im = "h" THEN spec.lng # NULL /\ spec.lng # <<>> ELSE spec.lng # NULL

\* Mutant of ClampedNopt: the clamp is missing.
ClampedNopt_None(im, tl, nopt) == nopt

\* nopt after the clamp of a fixed-buffer build of opt.h.
ClampedNopt(im, tl, nopt) ==
    IF im = "h" /\ tl # 0 THEN opt_min(tl, nopt) ELSE nopt

\* opt_parse up to opt_first: the struct opttbl it builds.
BuildTbl(im, tl, tb) ==
    LET nopt == ClampedNopt(im, tl, Len(tb))
        all == [i \in 1..nopt |-> i]
        IsS(i) == HasShrt(im, tb[i])
        IsL(i) == HasLng(im, tb[i])
        shrt == qsort(tb, SelectSeq(all, IsS), 0)
        lng == qsort(tb, SelectSeq(all, IsL), 1)
    IN  [nopt |-> nopt, nshrt |-> Len(shrt), nlng |-> Len(lng),
         shrt |-> shrt, lng |-> lng]

\* Mutant of opt_find: the position in the sorted buffer, not in the table.
opt_find_SortedPos(t, tb, k, len) ==
    LET base == IF len # 0 THEN t.lng ELSE t.shrt
        f == bsearch(tb, k, base, 0, Len(base), len)
    IN  IF f = 0 THEN 0 ELSE CHOOSE j \in 1..Len(base) : base[j] = f

\* opt_find: the position in the table of the found entry, 0 for NULL.
opt_find(t, tb, k, len) ==
    bsearch(tb, k, IF len # 0 THEN t.lng ELSE t.shrt, 0,
            IF len # 0 THEN t.nlng ELSE t.nshrt, len)

(***************************************************************************)
(* Inputs.                                                                 *)
(***************************************************************************)
Rets == 0..MaxRet

\* "f", "--", "-a", "-ab", "--aa", "-5"
Tokens == {<<102>>, <<45, 45>>, <<45, 97>>, <<45, 97, 98>>,
           <<45, 45, 97, 97>>, <<45, 53>>}

Vecs == UNION {[1..n -> Tokens] : n \in 0..MaxArgc}

OptSpec(c, l, n) == [shrt |-> c, lng |-> l, args |-> n]

ArgLimits == {-1, 0, 1, 2}

\* {}, {'a'/"aa"}, and {'b', 'a'/"aa"} with every argument limit for 'a'
\* (declared out of key order, so table position and sorted position differ).
Tables ==
    {<<>>, <<OptSpec(97, <<97, 97>>, 1)>>}
    \cup {<<OptSpec(98, NULL, 0), OptSpec(97, <<97, 97>>, n)>> : n \in ArgLimits}

EmptyTbl == [nopt |-> 0, nshrt |-> 0, nlng |-> 0, shrt |-> <<>>, lng |-> <<>>]

\* The build configurations: opt.c always uses alloca; opt.h uses alloca
\* (tbllen = 0) or fixed buffers of OPT_TBL_LEN entries.  The VLA build of
\* opt.h sizes its buffers to nopt and clamps nothing, like alloca; the
\* characters of the model are ASCII, where isgraph and isdigit are defined.
Builds == {<<"c", 0>>} \cup {<<"h", n>> : n \in 0..MaxTblLen}

Init ==
    /\ \E b \in Builds : impl = b[1] /\ tbllen = b[2]
    /\ fstact \in {OPT_FIRST_SKIP, OPT_FIRST_PARSE}
    /\ endact \in {OPT_END_ALLOW, OPT_END_DISALLOW}
    /\ vec \in Vecs
    /\ opts \in Tables
    /\ argc = Len(vec)
    /\ argv = 0
    /\ tbl = EmptyTbl
    /\ pc = "call"
    /\ opt = [tok |-> 0, ci |-> 0]
    /\ noargs = FALSE
    /\ res = 0
    /\ ret = 0
    /\ calls = <<>>
    /\ classified = {}
    /\ key = [len |-> 0, shrt |-> 0, lng |-> NULL]
    /\ found = 0
    /\ argbuf = [str |-> <<>>, type |-> ARG_TOKEN]
    /\ outer = <<>>

(***************************************************************************)
(* Callback invocations, as recorded in calls.  idx is {} for opt.c, whose *)
(* callbacks take no index.  tok and ci are the token and the character    *)
(* of it that was being read (ci = 0 outside a short cluster), job the     *)
(* table position of the matched option (0 when there is none).            *)
(***************************************************************************)
Idx(im, i) == IF im = "h" THEN {i} ELSE {}

CbCall(kd, jb, cnt, ar, r, tk, c) ==
    [kind |-> kd, idx |-> Idx(impl, jb - 1), count |-> cnt, args |-> ar,
     type |-> 0, shrt |-> 0, lng |-> NULL, ret |-> r, tok |-> tk, ci |-> c,
     job |-> jb]

ErrCall(ty, sh, lg, r, tk, c) ==
    [kind |-> "err", idx |-> {}, count |-> 0, args |-> 0,
     type |-> ty, shrt |-> sh, lng |-> lg, ret |-> r, tok |-> tk, ci |-> c,
     job |-> 0]

inputs == <<impl, tbllen, fstact, endact, vec, opts>>
finder == <<key, found, argbuf, outer>>

(***************************************************************************)
(* opt_parse.                                                              *)
(***************************************************************************)
\* Mutant of opt_first: OPT_FIRST_SKIP takes no token.
opt_first_NoSkip(fa, v, n, pos) == [argc |-> n, argv |-> pos, seen |-> {}]

\* opt_first: the cursor and the classified positions it leaves.
opt_first(fa, v, n, pos) ==
    IF fa = OPT_FIRST_SKIP /\ n # 0
    THEN [argc |-> n - 1, argv |-> pos + 1, seen |-> {pos + 1}]
    ELSE [argc |-> n, argv |-> pos, seen |-> {}]

\* opt_parse from its entry to the call of opt_read.
OptParse ==
    /\ pc = "call"
    /\ tbl' = BuildTbl(impl, tbllen, opts)
    /\ LET f == opt_first(fstact, vec, argc, argv)
       IN  /\ argc' = f.argc
           /\ argv' = f.argv
           /\ classified' = classified \cup f.seen
    /\ res' = 0
    /\ pc' = "read"
    /\ UNCHANGED <<inputs, opt, noargs, ret, calls, finder>>

\* Mutant of OptReadReturn: opt_read ends with "return 0".
OptReadReturn_Zero ==
    /\ pc = "read"
    /\ argc = 0 \/ res # 0
    /\ IF argc # 0
       THEN /\ argc' = argc - 1
            /\ argv' = argv + 1
            /\ classified' = classified \cup {argv + 1}
       ELSE UNCHANGED <<argc, argv, classified>>
    /\ ret' = 0
    /\ pc' = "done"
    /\ UNCHANGED <<inputs, tbl, opt, noargs, res, calls, finder>>

\* opt_read: the loop condition fails.  arg_get is evaluated before !res,
\* so a token is still taken when res is nonzero and one remains.
OptReadReturn ==
    /\ pc = "read"
    /\ argc = 0 \/ res # 0
    /\ IF argc # 0
       THEN /\ argc' = argc - 1
            /\ argv' = argv + 1
            /\ classified' = classified \cup {argv + 1}
       ELSE UNCHANGED <<argc, argv, classified>>
    /\ ret' = res
    /\ pc' = "done"
    /\ UNCHANGED <<inputs, tbl, opt, noargs, res, calls, finder>>

\* Mutant of PutBack: the ARG_TOKEN case calls arg_unget twice.
PutBack_Twice(type) == IF type = ARG_TOKEN THEN 2 ELSE 0

\* Mutant of PutBack: the ARG_TOKEN case forgets arg_unget.
PutBack_None(type) == 0

\* Mutant of PutBack: "--" is put back like a plain token when the context
\* says OPT_END_DISALLOW.
PutBack_EndAct(type) ==
    IF type = ARG_TOKEN \/ endact = OPT_END_DISALLOW THEN 1 ELSE 0

\* opt_read, case ARG_TOKEN falling through to ARG_END: how many tokens
\* arg_unget puts back before the positional callback is called.
PutBack(type) == IF type = ARG_TOKEN THEN 1 ELSE 0

\* opt_read, case ARG_TOKEN / ARG_END: the positional callback.
OptReadPositional ==
    /\ pc = "read"
    /\ argc # 0 /\ res = 0
    /\ LET arg == ArgAt(vec, argv)
           back == PutBack(arg.type)
       IN  /\ arg.type \in {ARG_TOKEN, ARG_END}
           /\ argc' = argc - 1 + back
           /\ argv' = argv + 1 - back
           /\ \E r \in Rets :
                /\ calls' = Append(calls, CbCall("pos", 0, argc',
                                                 argv', r, argv + 1, 0))
                /\ ret' = r
    /\ classified' = classified \cup {argv + 1}
    /\ pc' = "done"
    /\ UNCHANGED <<inputs, tbl, opt, noargs, res, finder>>

\* Mutant of NoArgs: bundled options collect arguments too.
NoArgs_Never(str) == FALSE

\* opt_short: noargs = opt[1] != '\0', for opt = str + 1.
NoArgs(str) == CharAt(str, 3) # 0

\* opt_read, case ARG_SHORT: enter opt_short with opt at arg.str + 1.
OptReadShort ==
    /\ pc = "read"
    /\ argc # 0 /\ res = 0
    /\ ArgAt(vec, argv).type = ARG_SHORT
    /\ argc' = argc - 1
    /\ argv' = argv + 1
    /\ classified' = classified \cup {argv + 1}
    /\ opt' = [tok |-> argv + 1, ci |-> 2]
    /\ noargs' = NoArgs(vec[argv + 1])
    /\ pc' = "short"
    /\ UNCHANGED <<inputs, tbl, res, ret, calls, finder>>

\* Mutant of ShortNext: the loop condition is *opt && !res, opt never moves.
ShortNext_NoAdvance(r) ==
    IF r = 0
    THEN /\ pc' = "short"
         /\ UNCHANGED <<opt, res>>
    ELSE /\ res' = r
         /\ pc' = "read"
         /\ UNCHANGED opt

\* Mutant of ShortNext: the loop condition is *++opt alone.
ShortNext_NoStop(r) ==
    IF CharAt(vec[opt.tok], opt.ci + 1) # 0
    THEN /\ opt' = [opt EXCEPT !.ci = opt.ci + 1]
         /\ pc' = "short"
         /\ UNCHANGED res
    ELSE /\ res' = r
         /\ pc' = "read"
         /\ UNCHANGED opt

\* The loop condition of opt_short, *++opt && !res: leave the cluster or
\* move to its next character.
ShortNext(r) ==
    IF CharAt(vec[opt.tok], opt.ci + 1) # 0 /\ r = 0
    THEN /\ opt' = [opt EXCEPT !.ci = opt.ci + 1]
         /\ pc' = "short"
         /\ UNCHANGED res
    ELSE /\ res' = r
         /\ pc' = "read"
         /\ UNCHANGED opt

\* opt_short, one iteration: the character is found and bundled.
OptShortBundled ==
    /\ pc = "short"
    /\ LET fnd == opt_find(tbl, opts, vec[opt.tok][opt.ci], 0)
       IN  /\ fnd # 0
           /\ noargs
           /\ \E r \in Rets :
                /\ calls' = Append(calls, CbCall("opt", fnd, 0,
                                                 argv, r, opt.tok, opt.ci))
                /\ ShortNext(r)
    /\ UNCHANGED <<inputs, argc, argv, tbl, noargs, ret, classified, finder>>

\* opt_short, one iteration: the character is found and alone in its token.
OptShortIsolated ==
    /\ pc = "short"
    /\ LET fnd == opt_find(tbl, opts, vec[opt.tok][opt.ci], 0)
       IN  /\ fnd # 0
           /\ ~noargs
           /\ LET cb == opt_call_back(impl, vec, argc, argv, opts[fnd])
              IN  /\ argc' = cb.argc
                  /\ argv' = cb.argv
                  /\ classified' = classified \cup cb.seen
                  /\ \E r \in Rets :
                       /\ calls' = Append(calls,
                              CbCall("opt", fnd, cb.count,
                                     cb.args, r, opt.tok, opt.ci))
                       /\ ShortNext(r)
    /\ UNCHANGED <<inputs, tbl, noargs, ret, finder>>

\* opt_short, one iteration: the character is not in the short index.
OptShortUnknown ==
    /\ pc = "short"
    /\ opt_find(tbl, opts, vec[opt.tok][opt.ci], 0) = 0
    /\ \E r \in Rets :
         /\ calls' = Append(calls, ErrCall(0, vec[opt.tok][opt.ci], NULL, r,
                                           opt.tok, opt.ci))
         /\ ShortNext(r)
    /\ UNCHANGED <<inputs, argc, argv, tbl, noargs, ret, classified, finder>>

\* The name opt_read hands to opt_long: arg.str + 2.
LongName(str) == SubSeq(str, 3, Len(str))

\* opt_read, case ARG_LONG, and opt_long: the name is found.
OptReadLong ==
    /\ pc = "read"
    /\ argc # 0 /\ res = 0
    /\ ArgAt(vec, argv).type = ARG_LONG
    /\ LET fnd == opt_find(tbl, opts, LongName(vec[argv + 1]), 1)
       IN  /\ fnd # 0
           /\ LET cb == opt_call_back(impl, vec, argc - 1, argv + 1, opts[fnd])
              IN  /\ argc' = cb.argc
                  /\ argv' = cb.argv
                  /\ classified' = classified \cup {argv + 1} \cup cb.seen
                  /\ \E r \in Rets :
                       /\ calls' = Append(calls,
                              CbCall("opt", fnd, cb.count,
                                     cb.args, r, argv + 1, 0))
                       /\ res' = r
    /\ UNCHANGED <<inputs, tbl, pc, opt, noargs, ret, finder>>

\* opt_read, case ARG_LONG, and opt_long: the name is not in the long index.
OptReadLongUnknown ==
    /\ pc = "read"
    /\ argc # 0 /\ res = 0
    /\ ArgAt(vec, argv).type = ARG_LONG
    /\ opt_find(tbl, opts, LongName(vec[argv + 1]), 1) = 0
    /\ argc' = argc - 1
    /\ argv' = argv + 1
    /\ classified' = classified \cup {argv + 1}
    /\ \E r \in Rets :
         /\ calls' = Append(calls, ErrCall(1, 0, LongName(vec[argv + 1]), r,
                                           argv + 1, 0))
         /\ res' = r
    /\ UNCHANGED <<inputs, tbl, pc, opt, noargs, ret, finder>>

Next ==
    \/ OptParse
    \/ OptReadReturn
    \/ OptReadPositional
    \/ OptReadShort
    \/ OptShortBundled
    \/ OptShortIsolated
    \/ OptShortUnknown
    \/ OptReadLong
    \/ OptReadLongUnknown

Spec == Init /\ [][Next]_vars

\* The program is sequential and every callback returns: a call that can
\* take a step takes it.
SpecLive == Spec /\ WF_vars(Next)

TypeOK ==
    /\ argc \in 0..Len(vec)
    /\ argv \in 0..Len(vec)
    /\ pc \in {"call", "read", "short", "done", "find"}
    /\ res \in Rets /\ ret \in Rets

(***************************************************************************)
(* The lookup specification: opt_parse builds the index of a table with    *)
(* unique keys, then the keys the readers can look up are looked up: the   *)
(* characters of a cluster (never nul) and the names behind "--" (never    *)
(* empty).                                                                 *)
(***************************************************************************)
\* nul, ' ', 'a', 'b' and NULL, "", "a", "aa".
FindSpecs ==
    {OptSpec(c, l, 0) : c \in {0, 32, 97, 98},
                        l \in {NULL, <<>>, <<97>>, <<97, 97>>}}

UniqueKeys(tb) ==
    \A i, j \in 1..Len(tb) : i # j =>
        /\ tb[i].shrt = 0 \/ tb[i].shrt # tb[j].shrt
        /\ tb[i].lng = NULL \/ tb[i].lng # tb[j].lng

FindTables ==
    {tb \in UNION {[1..n -> FindSpecs] : n \in 0..MaxOpts} : UniqueKeys(tb)}

\* ' ', 'a', 'b', 'c'
FindChars == {32, 97, 98, 99}
\* "a", "aa", "aaa", "ab"
FindNames == {<<97>>, <<97, 97>>, <<97, 97, 97>>, <<97, 98>>}

InitFind ==
    /\ \E b \in Builds : impl = b[1] /\ tbllen = b[2]
    /\ fstact = OPT_FIRST_PARSE
    /\ endact = OPT_END_ALLOW
    /\ vec = <<>>
    /\ opts \in FindTables
    /\ argc = 0
    /\ argv = 0
    /\ tbl = EmptyTbl
    /\ pc = "call"
    /\ opt = [tok |-> 0, ci |-> 0]
    /\ noargs = FALSE
    /\ res = 0
    /\ ret = 0
    /\ calls = <<>>
    /\ classified = {}
    /\ key = [len |-> 0, shrt |-> 0, lng |-> NULL]
    /\ found = 0
    /\ argbuf = [str |-> <<>>, type |-> ARG_TOKEN]
    /\ outer = <<>>

\* opt_parse up to the sorted buffers.
BuildIndex ==
    /\ pc = "call"
    /\ tbl' = BuildTbl(impl, tbllen, opts)
    /\ pc' = "find"
    /\ UNCHANGED <<inputs, argc, argv, opt, noargs, res, ret, calls,
                   classified, finder>>

\* opt_short: key.shrt = *opt; fnd = opt_find(tbl, &key, 0).
FindShort ==
    /\ pc = "find"
    /\ \E c \in FindChars :
         /\ key' = [len |-> 0, shrt |-> c, lng |-> NULL]
         /\ found' = opt_find(tbl, opts, c, 0)
    /\ UNCHANGED <<inputs, argc, argv, tbl, pc, opt, noargs, res, ret, calls,
                   classified, argbuf, outer>>

\* opt_long: key.lng = opt; fnd = opt_find(tbl, &key, 1).
FindLong ==
    /\ pc = "find"
    /\ \E n \in FindNames :
         /\ key' = [len |-> 1, shrt |-> 0, lng |-> n]
         /\ found' = opt_find(tbl, opts, n, 1)
    /\ UNCHANGED <<inputs, argc, argv, tbl, pc, opt, noargs, res, ret, calls,
                   classified, argbuf, outer>>

NextFind == BuildIndex \/ FindShort \/ FindLong

SpecFind == InitFind /\ [][NextFind]_vars

(***************************************************************************)
(* The classifier specification: arg_get takes and classifies one token,   *)
(* any string over '-', 'a' and '5', and opt_read hands it on: the         *)
(* cluster arg.str + 1 to opt_short, the name arg.str + 2 to opt_long.     *)
(***************************************************************************)
ClassifyChars == {45, 97, 53}

Strings == UNION {[1..n -> ClassifyChars] : n \in 0..MaxStrLen}

InitClassify ==
    /\ \E b \in Builds : impl = b[1] /\ tbllen = b[2]
    /\ fstact = OPT_FIRST_PARSE
    /\ endact = OPT_END_ALLOW
    /\ \E str \in Strings : vec = <<str>>
    /\ opts = <<>>
    /\ argc = 1
    /\ argv = 0
    /\ tbl = EmptyTbl
    /\ pc = "get"
    /\ opt = [tok |-> 0, ci |-> 0]
    /\ noargs = FALSE
    /\ res = 0
    /\ ret = 0
    /\ calls = <<>>
    /\ classified = {}
    /\ key = [len |-> 0, shrt |-> 0, lng |-> NULL]
    /\ found = 0
    /\ argbuf = [str |-> <<>>, type |-> ARG_TOKEN]
    /\ outer = <<>>

\* arg_get with a token left.
ArgGet ==
    /\ pc = "get"
    /\ argc # 0
    /\ argbuf' = ArgAt(vec, argv)
    /\ argc' = argc - 1
    /\ argv' = argv + 1
    /\ classified' = classified \cup {argv + 1}
    /\ pc' = "route"
    /\ UNCHANGED <<inputs, tbl, opt, noargs, res, ret, calls, key, found,
                   outer>>

\* The switch of opt_read: the operand each case passes on.
ArgRoute ==
    /\ pc = "route"
    /\ opt' = IF argbuf.type = ARG_SHORT THEN [tok |-> argv, ci |-> 2] ELSE opt
    /\ key' = IF argbuf.type = ARG_LONG
              THEN [len |-> 1, shrt |-> 0, lng |-> LongName(argbuf.str)]
              ELSE key
    /\ pc' = "routed"
    /\ UNCHANGED <<inputs, argc, argv, tbl, noargs, res, ret, calls,
                   classified, found, argbuf, outer>>

NextClassify == ArgGet \/ ArgRoute

SpecClassify == InitClassify /\ [][NextClassify]_vars

(***************************************************************************)
(* The nesting specification: an option or unrecognized-option callback    *)
(* may call opt_parse itself before it returns 0.  The nested call gets    *)
(* a different vector and either a struct optinfo of its own or the one    *)
(* of the suspended call, pointed at the new vector (info is the caller's, *)
(* and the callback can reach it through data).  The locals of the         *)
(* suspended call (tbl and its buffers, opt, noargs, res) stay on its      *)
(* stack frame.  A state reached by a callback that returned 0 stands for  *)
(* the inside of that callback: nothing between the return of the          *)
(* callback and that state reads or writes the context.  A callback that   *)
(* reuses the context in the middle of a cluster is left out: opt then     *)
(* points into a token of the replaced vector.                             *)
(***************************************************************************)
\* "-a", "-ab", "--aa", "f"
NestTokens == {<<45, 97>>, <<45, 97, 98>>, <<45, 45, 97, 97>>, <<102>>}

NestVecs == UNION {[1..n -> NestTokens] : n \in 0..MaxNestArgc}

\* The vectors a callback hands to a nested call.
InnerVecs == UNION {[1..n -> NestTokens] : n \in 0..MaxInnerArgc}

InitNested ==
    /\ \E b \in Builds : impl = b[1] /\ tbllen = b[2]
    /\ fstact = OPT_FIRST_PARSE
    /\ endact = OPT_END_ALLOW
    /\ vec \in NestVecs
    /\ opts \in Tables
    /\ argc = Len(vec)
    /\ argv = 0
    /\ tbl = EmptyTbl
    /\ pc = "call"
    /\ opt = [tok |-> 0, ci |-> 0]
    /\ noargs = FALSE
    /\ res = 0
    /\ ret = 0
    /\ calls = <<>>
    /\ classified = {}
    /\ key = [len |-> 0, shrt |-> 0, lng |-> NULL]
    /\ found = 0
    /\ argbuf = [str |-> <<>>, type |-> ARG_TOKEN]
    /\ outer = <<>>

\* The running call is inside an option or unrecognized-option callback
\* that is going to return 0.
InCallback ==
    /\ pc \in {"read", "short"}
    /\ Len(calls) > 0
    /\ calls[Len(calls)].kind # "pos"
    /\ calls[Len(calls)].ret = 0
    /\ pc = "short" => /\ calls[Len(calls)].tok = opt.tok
                       /\ calls[Len(calls)].ci = opt.ci - 1

\* The stack frame of a suspended call, the struct optinfo it was given
\* (ctx), and whether the nested call was given that same struct.
Frame(sh) ==
    [shared |-> sh, ctx |-> [vec |-> vec, argc |-> argc, argv |-> argv],
     tbl |-> tbl, pc |-> pc, opt |-> opt, noargs |-> noargs, res |-> res,
     calls |-> calls, classified |-> classified]

\* The callback calls opt_parse on another vector.
CallbackParse ==
    /\ InCallback
    /\ Len(outer) < MaxDepth
    /\ \E sh \in BOOLEAN, v \in InnerVecs :
         /\ v # vec
         /\ sh => pc = "read"
         /\ outer' = Append(outer, Frame(sh))
         /\ vec' = v
         /\ argc' = Len(v)
         /\ argv' = 0
    /\ tbl' = EmptyTbl
    /\ pc' = "call"
    /\ opt' = [tok |-> 0, ci |-> 0]
    /\ noargs' = FALSE
    /\ res' = 0
    /\ calls' = <<>>
    /\ classified' = {}
    /\ UNCHANGED <<impl, tbllen, fstact, endact, opts, ret, key, found,
                   argbuf>>

\* Mutant of CallbackReturn: the cursor is one for the whole process.
CallbackReturn_OneCursor ==
    /\ pc = "done"
    /\ outer # <<>>
    /\ LET f == outer[Len(outer)]
       IN  /\ tbl' = f.tbl
           /\ pc' = f.pc
           /\ opt' = f.opt
           /\ noargs' = f.noargs
           /\ res' = f.res
           /\ calls' = f.calls
           /\ classified' = f.classified
    /\ outer' = SubSeq(outer, 1, Len(outer) - 1)
    /\ ret' = 0
    /\ UNCHANGED <<impl, tbllen, fstact, endact, vec, opts, argc, argv, key,
                   found, argbuf>>

\* The nested opt_parse has returned and the callback returns 0: the
\* suspended call goes on with its locals, and with its context as the
\* nested call left it when it was handed the same struct.
CallbackReturn ==
    /\ pc = "done"
    /\ outer # <<>>
    /\ LET f == outer[Len(outer)]
       IN  /\ tbl' = f.tbl
           /\ pc' = f.pc
           /\ opt' = f.opt
           /\ noargs' = f.noargs
           /\ res' = f.res
           /\ calls' = f.calls
           /\ classified' = f.classified
           /\ IF f.shared
              THEN UNCHANGED <<vec, argc, argv>>
              ELSE /\ vec' = f.ctx.vec
                   /\ argc' = f.ctx.argc
                   /\ argv' = f.ctx.argv
    /\ outer' = SubSeq(outer, 1, Len(outer) - 1)
    /\ ret' = 0
    /\ UNCHANGED <<impl, tbllen, fstact, endact, opts, key, found, argbuf>>

NextNested == Next \/ CallbackParse \/ CallbackReturn

SpecNested == InitNested /\ [][NextNested]_vars

(***************************************************************************)
(* Vocabulary of the claims, stated on the strings themselves.             *)
(***************************************************************************)
IsShortTok(str) == Len(str) >= 2 /\ str[1] = 45 /\ str[2] # 45
IsLongTok(str) == Len(str) >= 3 /\ str[1] = 45 /\ str[2] = 45
IsEndTok(str) == str = <<45, 45>>
IsPlainTok(str) == ~IsShortTok(str) /\ ~IsLongTok(str) /\ ~IsEndTok(str)
StartsWithDash(str) == Len(str) >= 1 /\ str[1] = 45

NCalls == Len(calls)
LastCall == calls[NCalls]
Calls(kd) == {i \in 1..NCalls : calls[i].kind = kd}
\* The positions of vec in the slice a callback was given.
Slice(e) == {e.args + j : j \in 1..e.count}
\* The invocation made the callback consume arguments: a long option or a
\* short option alone in its token.
Consuming(e) ==
    e.kind = "opt" /\ (IsLongTok(vec[e.tok]) \/ Len(vec[e.tok]) = 2)
\* The invocation is for a character of a cluster of two or more.
Bundled(e) == e.kind # "pos" /\ IsShortTok(vec[e.tok]) /\ Len(vec[e.tok]) >= 3
\* Tokens opt_first skipped.
Skipped == IF fstact = OPT_FIRST_SKIP /\ Len(vec) > 0 THEN 1 ELSE 0

(***************************************************************************)
(* C1: opt_parse returns exactly the return value of the callback that     *)
(* ended the parse (an option or unrecognized-option callback that         *)
(* returned nonzero, or the positional callback whatever it returned),     *)
(* and 0 when the vector is exhausted with no positional call and no       *)
(* nonzero return.                                                         *)
(***************************************************************************)
C1_ReturnValue ==
    pc = "done" =>
        IF NCalls > 0 /\ (LastCall.kind = "pos" \/ LastCall.ret # 0)
        THEN ret = LastCall.ret
        ELSE ret = 0 /\ argc = 0 /\ Calls("pos") = {}
                     /\ \A i \in 1..NCalls : calls[i].ret = 0

C1_Witness ==
    /\ pc = "done" /\ NCalls >= 2
    /\ LastCall.kind = "err" /\ LastCall.ret = 2 /\ ret = 2

(***************************************************************************)
(* C2: once a callback has returned nonzero, no other callback is invoked  *)
(* in that parse: only the last invocation can have a nonzero result.      *)
(***************************************************************************)
C2_ShortCircuit ==
    /\ \A i \in 1..NCalls : calls[i].ret # 0 => i = NCalls
    /\ NCalls > 0 /\ LastCall.ret # 0 =>
          \/ pc = "done" /\ ret = LastCall.ret
          \/ pc = "read" /\ res = LastCall.ret

\* The first character of a cluster stopped the parse with a character of
\* the cluster and a later token left.
C2_Witness ==
    /\ pc = "done" /\ NCalls = 1
    /\ LastCall.kind = "opt" /\ LastCall.ret # 0
    /\ Len(vec[LastCall.tok]) = 3 /\ LastCall.ci = 2
    /\ LastCall.tok < Len(vec)

(***************************************************************************)
(* C3: the positional callback is invoked at most once, when the parse     *)
(* loop reaches a PLAIN or END token before any nonzero return; it gets    *)
(* idx -1 and the rest of the vector, from that token when PLAIN and from  *)
(* the next when END; it is the last callback; it is not invoked when      *)
(* options alone exhaust the vector.                                       *)
(***************************************************************************)
C3_PositionalHandoff ==
    /\ \A i \in Calls("pos") :
          LET e == calls[i]
          IN  /\ i = NCalls /\ pc = "done"
              /\ impl = "h" => e.idx = {-1}
              /\ e.args + e.count = Len(vec)
              /\ \/ IsPlainTok(vec[e.tok]) /\ e.args = e.tok - 1
                 \/ IsEndTok(vec[e.tok]) /\ e.args = e.tok
              /\ \A p \in 1..Len(vec) : IsEndTok(vec[p]) /\ p = e.tok =>
                    \A j \in 1..NCalls : p \notin Slice(calls[j])
    /\ pc = "done" /\ Calls("pos") = {} /\ (\A i \in 1..NCalls : calls[i].ret = 0) =>
          /\ argc = 0
          /\ \A p \in (Skipped + 1)..Len(vec) :
                \/ \E i \in 1..NCalls : p \in Slice(calls[i])
                \/ ~IsPlainTok(vec[p]) /\ ~IsEndTok(vec[p])
                   /\ \E i \in 1..NCalls : calls[i].tok = p

\* "--" after an option: the slice starts behind the "--".
C3_Witness ==
    /\ pc = "done" /\ NCalls >= 2
    /\ LastCall.kind = "pos" /\ IsEndTok(vec[LastCall.tok])
    /\ LastCall.count = 1 /\ LastCall.args = LastCall.tok

(***************************************************************************)
(* C4: a recognized long option, or a recognized short option alone in     *)
(* its token, with maxArgs = N >= 0 has its callback invoked exactly once  *)
(* with count = min(N, length of the run of acceptable tokens after the    *)
(* option token) and a slice that starts right after the option token;     *)
(* the tokens behind the slice stay on the cursor; an under-filled option  *)
(* never reaches the unrecognized-option callback.                         *)
(***************************************************************************)
\* Acceptable as an argument: PLAIN, and in opt.h also a SHORT token whose
\* first character after the dash is a digit.
AcceptableTok(str) ==
    \/ IsPlainTok(str)
    \/ impl = "h" /\ IsShortTok(str) /\ str[2] \in 48..57

\* Length of the maximal run of acceptable tokens after position p.
RunAfter(p) ==
    CHOOSE k \in 0..(Len(vec) - p) :
        /\ \A j \in 1..k : AcceptableTok(vec[p + j])
        /\ k = Len(vec) - p \/ ~AcceptableTok(vec[p + k + 1])

\* C4: count = min(N, run), slice and cursor right behind the option token.
C4_ArgumentCapping ==
    \A i \in 1..NCalls :
        LET e == calls[i]
            N == opts[e.job].args
        IN  Consuming(e) /\ N >= 0 =>
              /\ e.count = (IF N < RunAfter(e.tok) THEN N ELSE RunAfter(e.tok))
              /\ e.args = e.tok
              /\ \A j \in 1..NCalls : calls[j].tok = e.tok => j = i
              /\ i = NCalls /\ pc = "read" =>
                    argv = e.tok + e.count /\ argc = Len(vec) - argv
              /\ i < NCalls => calls[i + 1].tok = e.tok + e.count + 1

\* maxArgs = 1 with two plain tokens behind the option: one is taken, the
\* other goes to the positional callback.
C4_Witness ==
    /\ pc = "done" /\ NCalls = 2
    /\ Consuming(calls[1]) /\ opts[calls[1].job].args = 1
    /\ RunAfter(calls[1].tok) = 2 /\ calls[1].count = 1
    /\ calls[2].kind = "pos" /\ calls[2].count = 1

(***************************************************************************)
(* C5: the characters of a SHORT token with two or more characters are     *)
(* processed left to right, every recognized one has its callback invoked  *)
(* with count 0 whatever its maxArgs, and the cluster leaves the cursor    *)
(* where it was: right behind the cluster's token.                         *)
(***************************************************************************)
C5_Bundling ==
    /\ \A i \in 1..NCalls :
          LET e == calls[i]
          IN  Bundled(e) =>
                /\ e.kind = "opt" => e.count = 0 /\ e.args = e.tok
                /\ IF i > 1 /\ calls[i - 1].tok = e.tok
                   THEN e.ci = calls[i - 1].ci + 1
                   ELSE e.ci = 2
                /\ i = NCalls /\ (pc = "read" \/ (pc = "short" /\ opt.tok = e.tok)) =>
                      argv = e.tok /\ argc = Len(vec) - e.tok
                /\ i < NCalls /\ calls[i + 1].tok # e.tok =>
                      calls[i + 1].tok = e.tok + 1 /\ e.ci = Len(vec[e.tok])
    /\ pc = "short" /\ noargs => argv = opt.tok /\ argc = Len(vec) - opt.tok

\* "-ab" where 'a' could take two arguments and a plain token follows.
C5_Witness ==
    /\ NCalls = 3
    /\ calls[1].kind = "opt" /\ calls[1].ci = 2 /\ opts[calls[1].job].args = 2
    /\ calls[2].kind = "opt" /\ calls[2].ci = 3 /\ calls[2].tok = calls[1].tok
    /\ calls[3].kind = "pos" /\ calls[3].tok = calls[1].tok + 1
    /\ calls[3].args = calls[1].tok

(***************************************************************************)
(* C6: in opt.h no token that begins with a dash is accepted as an         *)
(* argument of an option.                                                  *)
(***************************************************************************)
C6_NoDashArgument ==
    impl = "h" =>
        \A i \in Calls("opt") : \A p \in Slice(calls[i]) : ~StartsWithDash(vec[p])

(***************************************************************************)
(* C7: the unrecognized-option callback is invoked exactly for looked-up   *)
(* characters and names that are not in the option index, with             *)
(* (0, c, NULL) for a character and (1, nul, name) for a name; after a 0   *)
(* result parsing goes on with the next character of the cluster or the    *)
(* next token, after a nonzero result the parse ends with that value.      *)
(***************************************************************************)
InShortIndex(c) == \E j \in 1..tbl.nshrt : opts[tbl.shrt[j]].shrt = c
InLongIndex(name) == \E j \in 1..tbl.nlng : opts[tbl.lng[j]].lng = name
NameOf(str) == [j \in 1..(Len(str) - 2) |-> str[j + 2]]

\* C7: errcb exactly for keys outside the index, and what follows its result.
C7_Unrecognized ==
    \A i \in 1..NCalls :
        LET e == calls[i]
            str == vec[e.tok]
        IN  e.kind # "pos" =>
              /\ IF IsShortTok(str)
                 THEN /\ e.kind = "err" <=> ~InShortIndex(str[e.ci])
                      /\ e.kind = "err" =>
                            e.type = 0 /\ e.shrt = str[e.ci] /\ e.lng = NULL
                 ELSE /\ IsLongTok(str)
                      /\ e.kind = "err" <=> ~InLongIndex(NameOf(str))
                      /\ e.kind = "err" =>
                            e.type = 1 /\ e.shrt = 0 /\ e.lng = NameOf(str)
              /\ e.kind = "err" /\ e.ret = 0 =>
                    LET more == IsShortTok(str) /\ e.ci < Len(str)
                    IN  IF i < NCalls
                        THEN IF more
                             THEN calls[i + 1].tok = e.tok
                                  /\ calls[i + 1].ci = e.ci + 1
                             ELSE calls[i + 1].tok = e.tok + 1
                        ELSE \/ pc = "short" /\ more /\ opt = [tok |-> e.tok, ci |-> e.ci + 1]
                             \/ pc = "read" /\ ~more /\ argv = e.tok /\ res = 0
                             \/ pc = "short" /\ ~more /\ opt.tok = e.tok + 1
                             \/ pc = "done" /\ ~more /\ e.tok = Len(vec) /\ ret = 0
              /\ e.kind = "err" /\ e.ret # 0 =>
                    /\ i = NCalls
                    /\ \/ pc = "read" /\ res = e.ret
                       \/ pc = "done" /\ ret = e.ret

\* An unknown character answered with 0, then the next character of the
\* same cluster is found.
C7_Witness ==
    /\ NCalls >= 2
    /\ calls[1].kind = "err" /\ calls[1].ret = 0 /\ calls[1].type = 0
    /\ calls[2].kind = "opt" /\ calls[2].tok = calls[1].tok
    /\ tbl.nshrt >= 1

(***************************************************************************)
(* C8: with OPT_FIRST_SKIP opt_parse consumes exactly one token before     *)
(* the loop (none when the vector is empty) and passes it to no callback,  *)
(* so it triggers no lookup and no positional handoff; with                *)
(* OPT_FIRST_PARSE the first token is dispatched like any other.           *)
(***************************************************************************)
\* C8 as claimed: the skipped token is consumed without being classified
\* and reaches no callback.
C8_SkipNeverClassifies ==
    fstact = OPT_FIRST_SKIP /\ pc # "call" =>
        /\ 1 \notin classified
        /\ \A i \in 1..NCalls : calls[i].tok # 1 /\ 1 \notin Slice(calls[i])

\* C8 as amended: OPT_FIRST_SKIP consumes exactly one token before the loop;
\* arg_get classifies it, opt_first drops the classification, and no
\* callback sees the token; with OPT_FIRST_PARSE the first token is
\* dispatched like any other.
C8_FirstToken ==
    /\ pc = "read" /\ NCalls = 0 /\ res = 0 =>
          argv = Skipped /\ argc = Len(vec) - Skipped
    /\ fstact = OPT_FIRST_SKIP /\ pc # "call" =>
          /\ argv >= Skipped
          /\ Len(vec) > 0 => 1 \in classified
          /\ \A i \in 1..NCalls : calls[i].tok # 1 /\ 1 \notin Slice(calls[i])
          /\ pc = "short" => opt.tok # 1
    /\ fstact = OPT_FIRST_PARSE =>
          /\ NCalls > 0 => calls[1].tok = 1
          /\ pc = "short" /\ NCalls = 0 => opt.tok = 1

\* A skipped "--": the token behind it is an option that gets looked up.
C8_Witness ==
    /\ fstact = OPT_FIRST_SKIP /\ Len(vec) >= 2 /\ IsEndTok(vec[1])
    /\ NCalls >= 1 /\ calls[1].kind = "opt" /\ calls[1].tok = 2
    /\ pc = "done"

Declaring(n) ==
    {i \in 1..n : IF key.len = 0 THEN opts[i].shrt = key.shrt /\ key.shrt # 0
                  ELSE opts[i].lng = key.lng}

Indexed ==
    LET n == IF impl = "h" /\ tbllen # 0 /\ tbllen < Len(opts)
             THEN tbllen ELSE Len(opts)
    IN  {i \in Declaring(n) : impl = "h" /\ key.len = 0 => key.shrt \in 33..126}

C11_StableIndex ==
    impl = "h" =>
        \A i \in 1..NCalls :
            LET e == calls[i]
                str == vec[e.tok]
            IN  /\ e.kind = "pos" => e.idx = {-1}
                /\ e.kind = "opt" =>
                       \E k \in 1..Len(opts) :
                           /\ e.idx = {k - 1}
                           /\ IsLongTok(str) => opts[k].lng = NameOf(str)
                           /\ IsShortTok(str) => opts[k].shrt = str[e.ci]

\* The second table entry, first in both sorted buffers, is matched by a
\* cluster character, by a lone short option and by a long option.
C11_Witness ==
    /\ impl = "h" /\ pc = "done" /\ Len(opts) = 2
    /\ tbl.nshrt = 2 /\ tbl.shrt[1] = 2 /\ tbl.lng = <<2>>
    /\ \E i, j, k \in Calls("opt") :
           /\ Bundled(calls[i]) /\ calls[i].idx = {1}
           /\ IsShortTok(vec[calls[j].tok]) /\ Consuming(calls[j])
           /\ calls[j].idx = {1}
           /\ IsLongTok(vec[calls[k].tok]) /\ calls[k].idx = {1}
    /\ \E i \in Calls("opt") : calls[i].idx = {0}


(***************************************************************************)
(* C12: arg_classify gives every string exactly one class.  A string that  *)
(* does not start with '-', the empty string and "-" are ARG_TOKEN; "--"   *)
(* is ARG_END; "--" followed by at least one character is ARG_LONG and     *)
(* the name handed on is everything after the two dashes; '-' followed by  *)
(* at least one character, the first of them not '-', is ARG_SHORT and     *)
(* the cluster handed on is everything after the dash.                     *)
(***************************************************************************)
C12_Classification ==
    pc \in {"route", "routed"} =>
        LET str == vec[1]
            n == Len(str)
            ty == argbuf.type
        IN  /\ argbuf.str = str
            /\ ty \in {ARG_TOKEN, ARG_END, ARG_SHORT, ARG_LONG}
            /\ (n = 0 \/ str[1] # 45 \/ str = <<45>>) <=> (ty = ARG_TOKEN)
            /\ (str = <<45, 45>>) <=> (ty = ARG_END)
            /\ (n >= 3 /\ str[1] = 45 /\ str[2] = 45) <=> (ty = ARG_LONG)
            /\ (n >= 2 /\ str[1] = 45 /\ str[2] # 45) <=> (ty = ARG_SHORT)
            /\ pc = "routed" /\ ty = ARG_LONG =>
                   /\ Len(key.lng) = n - 2
                   /\ \A j \in 1..(n - 2) : key.lng[j] = str[j + 2]
            /\ pc = "routed" /\ ty = ARG_SHORT =>
                   /\ vec[opt.tok] = str
                   /\ opt.ci = 2

\* "---" was classified ARG_LONG and handed on with the name "-".
C12_Witness ==
    /\ pc = "routed"
    /\ vec = <<(<<45, 45, 45>>)>>
    /\ argbuf.type = ARG_LONG
    /\ key.lng = <<45>>


\* The cursor offset at the moment the callback of invocation e returned:
\* past the slice of an option, past the token of an unrecognized option.
CursorAtReturn(e) == IF e.kind = "opt" THEN e.args + e.count ELSE e.tok

(***************************************************************************)
(* C13: when an option callback or the unrecognized-option callback        *)
(* returns nonzero, opt_parse returns without taking any further token:    *)
(* the cursor it leaves in the context is the cursor at the moment that    *)
(* callback returned.                                                      *)
(***************************************************************************)
C13_NoTokenAfterStop ==
    pc = "done" /\ NCalls > 0 /\ LastCall.kind # "pos" /\ LastCall.ret # 0 =>
        /\ argv = CursorAtReturn(LastCall)
        /\ argc = Len(vec) - CursorAtReturn(LastCall)


\* What the struct optinfo of suspended call k holds: its own record, or,
\* when the call nested in it was handed the same struct, what that call
\* has made of it.
RECURSIVE Ctx(_)
Ctx(k) ==
    IF ~outer[k].shared THEN outer[k].ctx
    ELSE IF k = Len(outer) THEN [vec |-> vec, argc |-> argc, argv |-> argv]
    ELSE Ctx(k + 1)

Rejected(e) ==
    /\ Consuming(e)
    /\ opts[e.job].args < 0 \/ e.count < opts[e.job].args
    /\ e.tok + e.count < Len(vec)

(***************************************************************************)
(* C15: a token taken and rejected while the arguments of an option are    *)
(* collected is back on the cursor when the callback is invoked, and when  *)
(* the callback returns 0 it is the next token the parse loop takes,       *)
(* classifies and routes by its class; it is never skipped.                *)
(***************************************************************************)
C15_RejectedTokenNext ==
    \A i \in 1..NCalls :
        LET e == calls[i]
            p == e.tok + e.count + 1
        IN  Rejected(e) =>
              /\ p \in classified
              /\ ~AcceptableTok(vec[p])
              /\ e.ret = 0 /\ i = NCalls =>
                    \/ pc = "read" /\ argv = p - 1 /\ argc = Len(vec) - p + 1
                    \/ pc = "short" /\ opt = [tok |-> p, ci |-> 2]
              /\ e.ret = 0 /\ i < NCalls =>
                    /\ calls[i + 1].tok = p
                    /\ (calls[i + 1].kind = "pos") <=> IsEndTok(vec[p])
                    /\ IsShortTok(vec[p]) => calls[i + 1].ci = 2
                    /\ IsLongTok(vec[p]) => calls[i + 1].ci = 0

\* "-a" with room for an argument is followed by "--aa", which is rejected
\* and then read as a long option.
C15_Witness ==
    /\ NCalls = 2
    /\ Rejected(calls[1]) /\ calls[1].count = 0 /\ calls[1].ret = 0
    /\ IsShortTok(vec[calls[1].tok])
    /\ IsLongTok(vec[calls[2].tok])
    /\ calls[2].tok = calls[1].tok + 1


(***************************************************************************)
(* C16: an option declared with args = -1 that is dispatched with          *)
(* consumption is given every consecutive acceptable token behind its      *)
(* token: the collection stops at the first token that is not acceptable   *)
(* or at the end of the vector, never at a count.                          *)
(***************************************************************************)
C16_Unbounded ==
    \A i \in 1..NCalls :
        LET e == calls[i]
        IN  Consuming(e) /\ opts[e.job].args = -1 =>
              /\ e.args = e.tok
              /\ e.count = RunAfter(e.tok)
              /\ \A p \in Slice(e) : AcceptableTok(vec[p])
              /\ \/ e.tok + e.count = Len(vec)
                 \/ ~AcceptableTok(vec[e.tok + e.count + 1])

\* An option with args = -1 followed by two acceptable tokens gets both.
C16_Witness ==
    /\ NCalls >= 1
    /\ Consuming(calls[1]) /\ opts[calls[1].job].args = -1
    /\ calls[1].count = 2
    /\ calls[1].tok + 2 = Len(vec)


(***************************************************************************)
(* C17: at every point of a parse of a vector of L tokens the cursor has   *)
(* position + remaining = L and 0 <= remaining <= L; a token is put back   *)
(* only right after it was taken, in the same step, so no step leaves the  *)
(* cursor before where it found it, nor before the start of the vector.    *)
(***************************************************************************)
C17_CursorInvariant ==
    /\ [](argc + argv = Len(vec) /\ argc \in 0..Len(vec))
    /\ [][argv' >= argv /\ argc' <= argc]_vars

\* A plain first token was taken and put back: the positional callback got
\* the whole vector and the cursor is where it started.
C17_Witness ==
    /\ pc = "done"
    /\ NCalls = 1 /\ calls[1].kind = "pos"
    /\ calls[1].tok = 1 /\ 1 \in classified
    /\ calls[1].count = Len(vec)
    /\ argv = 0 /\ argc = Len(vec)


\* The positions of vec read as an option token: the token of every
\* invocation but the positional one.
OptionTokens == {calls[i].tok : i \in Calls("opt") \cup Calls("err")}

(***************************************************************************)
(* C18: over a whole parse every position of the vector is delivered to    *)
(* at most one callback: the slices of the option invocations are pairwise *)
(* disjoint and follow one another in the vector, none holds a token that  *)
(* was read as an option token, and none meets the slice of the            *)
(* positional callback.                                                    *)
(***************************************************************************)
C18_DisjointSlices ==
    /\ \A i, j \in 1..NCalls :
          i < j => \A p \in Slice(calls[i]), q \in Slice(calls[j]) : p < q
    /\ \A i \in 1..NCalls :
          /\ Slice(calls[i]) \subseteq 1..Len(vec)
          /\ calls[i].kind = "opt" => Slice(calls[i]) \cap OptionTokens = {}
          /\ calls[i].kind = "opt" => \A q \in Slice(calls[i]) : q > calls[i].tok

\* An option with one argument, then the positional callback with the
\* token behind it: two slices of one token each.
C18_Witness ==
    /\ pc = "done" /\ NCalls = 2
    /\ calls[1].kind = "opt" /\ calls[1].count = 1
    /\ calls[2].kind = "pos" /\ calls[2].count = 1
    /\ Slice(calls[1]) = {2} /\ Slice(calls[2]) = {3}


\* The number of characters in the tokens of v.
RECURSIVE TotalChars(_)
TotalChars(v) == IF v = <<>> THEN 0 ELSE Len(Head(v)) + TotalChars(Tail(v))

(***************************************************************************)
(* C19: when every callback returns, opt_parse returns: an iteration of    *)
(* the parse loop that does not end the parse leaves fewer tokens on the   *)
(* cursor than it found, no step in a cluster adds any, and the callbacks  *)
(* are invoked at most once per character of the vector plus once.         *)
(***************************************************************************)
C19_Termination ==
    /\ <>(pc = "done")
    /\ [](NCalls <= TotalChars(vec) + 1)
    /\ [][/\ pc = "read" /\ pc' # "done" => argc' < argc
          /\ argc' <= argc]_vars

\* The parse of a vector of MaxArgc clusters has returned after a callback
\* for each of their characters.
C19_Witness ==
    /\ pc = "done"
    /\ Len(vec) = MaxArgc
    /\ \A p \in 1..Len(vec) : IsShortTok(vec[p]) /\ Len(vec[p]) = 3
    /\ NCalls = 2 * MaxArgc
    /\ argc = 0


\* The positions of the table that declare the key read for invocation e:
\* the character of the cluster, or the name behind "--".
DeclaredAt(e) ==
    {i \in 1..Len(opts) :
        IF IsLongTok(vec[e.tok]) THEN opts[i].lng = NameOf(vec[e.tok])
        ELSE opts[i].shrt = vec[e.tok][e.ci]}

(***************************************************************************)
(* C20: in a build of opt.h with fixed lookup buffers of capacity C only   *)
(* the first min(C, nopt) table entries are indexed: the short and the     *)
(* long index hold at most C entries, all among the first C of the table,  *)
(* and an option declared only at a table position past C is never         *)
(* matched: its token goes to the unrecognized-option callback.            *)
(***************************************************************************)
C20_FixedBuffers ==
    impl = "h" /\ tbllen # 0 /\ pc # "call" =>
        /\ tbl.nopt = (IF tbllen < Len(opts) THEN tbllen ELSE Len(opts))
        /\ tbl.nshrt <= tbllen /\ Len(tbl.shrt) = tbl.nshrt
        /\ tbl.nlng <= tbllen /\ Len(tbl.lng) = tbl.nlng
        /\ \A j \in 1..tbl.nshrt : tbl.shrt[j] <= tbllen
        /\ \A j \in 1..tbl.nlng : tbl.lng[j] <= tbllen
        /\ \A i \in 1..NCalls :
              LET e == calls[i]
              IN  /\ e.kind = "opt" => e.job <= tbllen /\ e.job \in DeclaredAt(e)
                  /\ e.kind # "pos" /\ (\A k \in DeclaredAt(e) : k > tbllen)
                         => e.kind = "err"

\* With a buffer of one entry the second entry of the table is not
\* indexed: its character and its name go to the unrecognized-option
\* callback, while the first entry is matched.
C20_Witness ==
    /\ impl = "h" /\ tbllen = 1 /\ Len(opts) = 2
    /\ tbl.nshrt = 1 /\ tbl.nlng = 0
    /\ \E i, j \in Calls("err") :
          /\ DeclaredAt(calls[i]) = {2} /\ IsShortTok(vec[calls[i].tok])
          /\ DeclaredAt(calls[j]) = {2} /\ IsLongTok(vec[calls[j].tok])
    /\ \E i \in Calls("opt") : calls[i].job = 1

=============================================================================
